---- MODULE Spec2Model ----
(***************************************************************************)
(* auto_update.py: one batch job (run_once) that reads the tracked stocks  *)
(* from the table saham, fetches the last daily bar of each from the       *)
(* provider, upserts it into harga_saham_harian and writes a heartbeat     *)
(* into system_status.                                                      *)
(*                                                                         *)
(* The store and the provider are the environment: every call to them      *)
(* either answers or raises, and a store call that raises has changed      *)
(* nothing.  Rows of saham keep the columns the job reads (id,             *)
(* yahoo_symbol, is_tracked); kode is only logged.                         *)
(***************************************************************************)
EXTENDS Integers, Sequences, FiniteSets

VARIABLES
    saham,          \* table saham: the rows, in the order the store returns them
    harga,          \* table harga_saham_harian: a set of rows
    status,         \* table system_status: NoRow, or the row with id 1
    pc,             \* where run_once is
    now,            \* run_once: now_jkt
    market_hours,   \* run_once: market_hours
    stocks,         \* run_once: stocks
    idx,            \* run_once: position of the for loop in stocks (1-based)
    price,          \* run_once: price, the value fetch_price returned
    action,         \* run_once: action, the value save_price_to_supabase returned
    status_written, \* history: update_system_status returned without raising
    outcomes,       \* history: what happened to each stock of this run, in order
    provider,       \* environment: the history the provider holds per symbol
    run_no,         \* history: number of runs started (counted runs only)
    after_first,    \* history: the price rows when the first counted run ended
    store_fault,    \* history: a store call raised during a counted run
    inv             \* concurrent upserts: the state of each invocation

pvars == <<saham, harga, status, pc, now, market_hours, stocks, idx, price, action,
           status_written>>
tvars == <<provider, run_no, after_first, store_fault>>
hvars == <<outcomes, tvars, inv>>
vars == <<pvars, hvars>>

(***************************************************************************)
(* Bounds of the model                                                      *)
(***************************************************************************)
\* rows of the table saham
NumStocks == 2
\* counted runs of the re-invocation specification
MaxRuns == 2

(***************************************************************************)
(* Values                                                                   *)
(***************************************************************************)
\* Python None in a text column, in a timestamp column, and as a returned value
None == "<None>"
NullTs == <<>>
NoPrice == [none |-> TRUE]
NoAction == "<None>"
\* system_status without the row of id 1
NoRow == [absent |-> TRUE]
Unset == "<unset>"

SahamIds == 1..NumStocks
Symbols == {"BBCA.JK", "TLKM.JK"}
\* what the column yahoo_symbol may hold
SymbolValues == Symbols \cup {None, "", "null"}

\* calendar dates in chronological order, and closing prices
DateList == <<"2024-03-01", "2024-03-04">>
Dates == {DateList[i] : i \in DOMAIN DateList}
Prices == {9500, 9550}

(***************************************************************************)
(* datetime: a reading of the Jakarta clock is its weekday(), 0 (Monday) to *)
(* 6 (Sunday), which stands for its date, and its time().  Python compares  *)
(* time objects field by field from the hour down.                          *)
(***************************************************************************)
Time(h, m, s, us) == [hour |-> h, minute |-> m, second |-> s, microsecond |-> us]

TimeTuple(t) == <<t.hour, t.minute, t.second, t.microsecond>>

RECURSIVE TupleLE(_, _)
TupleLE(a, b) ==
    IF a = <<>> THEN TRUE
    ELSE IF Head(a) < Head(b) THEN TRUE
    ELSE IF Head(a) > Head(b) THEN FALSE
    ELSE TupleLE(Tail(a), Tail(b))

TimeLE(a, b) == TupleLE(TimeTuple(a), TimeTuple(b))

\* a plausible slip: comparing hour and minute each on its own
is_market_hours_fieldwise(now_jkt) ==
    /\ now_jkt.weekday < 5
    /\ 9 <= now_jkt.time.hour /\ now_jkt.time.hour <= 15
    /\ now_jkt.time.minute <= 30

is_market_hours(now_jkt) ==
    IF now_jkt.weekday >= 5 THEN FALSE
    ELSE LET start == Time(9, 0, 0, 0)
             end == Time(15, 30, 0, 0)
         IN  TimeLE(start, now_jkt.time) /\ TimeLE(now_jkt.time, end)

\* datetime.isoformat(): the microseconds are printed only when not zero
isoformat(dt) ==
    LET t == dt.time
    IN  IF t.microsecond = 0
        THEN <<dt.weekday, "T", t.hour, t.minute, t.second, "+07:00">>
        ELSE <<dt.weekday, "T", t.hour, t.minute, t.second, ".", t.microsecond, "+07:00">>

TimesOfDay ==
    { Time(0, 0, 0, 0), Time(8, 59, 59, 0), Time(8, 59, 59, 999999),
      Time(9, 0, 0, 0), Time(9, 0, 0, 1), Time(9, 45, 0, 0), Time(10, 59, 59, 0),
      Time(12, 0, 0, 0), Time(14, 31, 0, 0), Time(15, 0, 0, 0), Time(15, 29, 59, 999999),
      Time(15, 30, 0, 0), Time(15, 30, 0, 1), Time(15, 30, 1, 0), Time(15, 31, 0, 0),
      Time(16, 0, 0, 0), Time(23, 59, 59, 999999) }

Clocks == [weekday : 0..6, time : TimesOfDay]

\* the clock readings the runs of the job start at
RunClocks ==
    { [weekday |-> 0, time |-> Time(9, 0, 0, 0)],
      [weekday |-> 4, time |-> Time(15, 30, 0, 0)],
      [weekday |-> 5, time |-> Time(12, 0, 0, 0)] }

(***************************************************************************)
(* get_tracked_stocks                                                       *)
(***************************************************************************)
\* .eq("is_tracked", True), evaluated by the store
SelectTracked(table) == SelectSeq(table, LAMBDA row : row.is_tracked = TRUE)

\* a plausible slip: the placeholder "null" is not filtered
get_tracked_stocks_keeps_null(table) ==
    SelectSeq(SelectTracked(table),
              LAMBDA row : row.yahoo_symbol \notin {None, ""})

get_tracked_stocks(table) ==
    LET data == SelectTracked(table)
    IN  SelectSeq(data, LAMBDA row : row.yahoo_symbol \notin {None, "", "null"})

\* Python truth value of a yahoo_symbol
Truthy(symbol) == symbol \notin {None, ""}

(***************************************************************************)
(* The provider: ticker.history(period="5d", interval="1d") raises, or      *)
(* answers the daily bars it holds in chronological order (possibly none).  *)
(***************************************************************************)
Bars == [date : Dates, close : Prices]
ProviderError == [raises |-> TRUE, hist |-> <<>>]

Histories ==
    {<<>>} \cup {<<b>> : b \in Bars}
           \cup {<<a, b>> : a \in {x \in Bars : x.date = DateList[1]},
                            b \in {x \in Bars : x.date = DateList[2]}}

ProviderAnswers == {[raises |-> FALSE, hist |-> h] : h \in Histories} \cup {ProviderError}

\* fetch_price, given what ticker.history did
fetch_price(answer) ==
    IF answer.raises THEN NoPrice
    ELSE IF answer.hist = <<>> THEN NoPrice
    ELSE LET last_row == answer.hist[Len(answer.hist)]
         IN  [date |-> last_row.date, close |-> last_row.close]

(***************************************************************************)
(* harga_saham_harian.  The store gives each inserted row a fresh id; the   *)
(* job only compares ids, so the model names a row after its key and the    *)
(* number of rows of that key already there.                                *)
(***************************************************************************)
RowsFor(table, saham_id, close_date) ==
    {r \in table : r.saham_id = saham_id /\ r.close_date = close_date}

FreshId(table, saham_id, close_date) ==
    <<saham_id, close_date, Cardinality(RowsFor(table, saham_id, close_date))>>

\* select("id").eq("saham_id", ..).eq("close_date", ..).limit(1): the lists
\* the store may answer (no order is asked for)
CheckExisting(table, saham_id, close_date) ==
    IF RowsFor(table, saham_id, close_date) = {} THEN {<<>>}
    ELSE {<<[id |-> r.id]>> : r \in RowsFor(table, saham_id, close_date)}

\* a plausible slip: the update is sent without .eq("id", harga_id)
UpdateRow_no_filter(table, harga_id, close_price) ==
    {[r EXCEPT !.close_price = close_price] : r \in table}

\* update({"close_price": ..}).eq("id", harga_id)
UpdateRow(table, harga_id, close_price) ==
    {IF r.id = harga_id THEN [r EXCEPT !.close_price = close_price] ELSE r : r \in table}

\* a different store call: an insert that overwrites the row of the same key
InsertRow_on_conflict(table, saham_id, close_date, close_price) ==
    {r \in table : ~(r.saham_id = saham_id /\ r.close_date = close_date)}
        \cup {[id |-> <<saham_id, close_date, 0>>, saham_id |-> saham_id,
                close_date |-> close_date, close_price |-> close_price]}

\* insert({"saham_id": .., "close_date": .., "close_price": ..})
InsertRow(table, saham_id, close_date, close_price) ==
    table \cup {[id |-> FreshId(table, saham_id, close_date), saham_id |-> saham_id,
                 close_date |-> close_date, close_price |-> close_price]}

\* a plausible slip: the price is written without looking for the row first
WritePrice_always_insert(table, existing, saham_id, data) ==
    InsertRow(table, saham_id, data.date, data.close)

\* a plausible slip: an existing row is found but its price is left as it was
WritePrice_keeps_old(table, existing, saham_id, data) ==
    IF existing # <<>> THEN table
    ELSE InsertRow(table, saham_id, data.date, data.close)

\* save_price_to_supabase after the check: the branch on existing
WritePrice(table, existing, saham_id, data) ==
    IF existing # <<>>
    THEN UpdateRow(table, existing[1].id, data.close)
    ELSE InsertRow(table, saham_id, data.date, data.close)

ActionOf(existing) == IF existing # <<>> THEN "update" ELSE "insert"

(***************************************************************************)
(* system_status                                                            *)
(***************************************************************************)
FieldOf(mh) == IF mh THEN "last_auto_update_at" ELSE "last_out_of_hours_run"

\* a plausible slip: the update replaces the row instead of one field
update_system_status_replaces(row, now_jkt, mh) ==
    [[id |-> 1, last_auto_update_at |-> NullTs, last_out_of_hours_run |-> NullTs]
        EXCEPT ![FieldOf(mh)] = isoformat(now_jkt)]

\* a plausible slip: no insert when the update matched no row
update_system_status_no_insert(row, now_jkt, mh) ==
    IF row # NoRow THEN [row EXCEPT ![FieldOf(mh)] = isoformat(now_jkt)] ELSE row

\* update_system_status: the row with id 1 after the call
update_system_status(row, now_jkt, mh) ==
    LET ts_iso == isoformat(now_jkt)
        field == FieldOf(mh)
    IN  IF row # NoRow
        THEN [row EXCEPT ![field] = ts_iso]
        ELSE [[id |-> 1, last_auto_update_at |-> NullTs, last_out_of_hours_run |-> NullTs]
                 EXCEPT ![field] = ts_iso]

(***************************************************************************)
(* run_once, step by step.  A position is where the for loop stands.  price *)
(* and action are not read after the log line of their iteration: the model *)
(* drops price when the save is over and action at the following step.      *)
(***************************************************************************)
Position(p, i) == [pc |-> p, idx |-> i]

\* the loop goes on to the stock after stocks[i], or is over
Continue(list, i) == Position(IF i >= Len(list) THEN "status" ELSE "loop", i + 1)

\* a plausible slip: a failed fetch ends the loop
OnFetchNone_breaks(list, i) == Position("status", i + 1)

\* `if not price: ... continue`
OnFetchNone(list, i) == Continue(list, i)

\* a plausible slip: the save is not inside try/except
OnSaveException_propagates(list, i) == Position("raised", i)

\* `except Exception as e:` around save_price_to_supabase
OnSaveException(list, i) == Continue(list, i)

\* get_tracked_stocks() is called outside any try: the exception leaves run_once
OnLoadException == "raised"

\* `except Exception as e:` around update_system_status
OnStatusException == "returned"

\* now_jkt = datetime.now(ID_TZ); market_hours = is_market_hours(now_jkt)
StartRun(clock) ==
    /\ pc \in {"idle", "returned", "raised"}
    /\ now' = clock
    /\ market_hours' = is_market_hours(clock)
    /\ pc' = "load"
    /\ stocks' = <<>>
    /\ idx' = 1
    /\ price' = NoPrice
    /\ action' = NoAction
    /\ status_written' = FALSE
    /\ UNCHANGED <<saham, harga, status>>

\* stocks = get_tracked_stocks()
LoadOk ==
    /\ pc = "load"
    /\ stocks' = get_tracked_stocks(saham)
    /\ pc' = Continue(stocks', 0).pc
    /\ idx' = 1
    /\ UNCHANGED <<saham, harga, status, now, market_hours, price, action,
                   status_written>>

\* the store query of get_tracked_stocks raises
LoadFail ==
    /\ pc = "load"
    /\ pc' = OnLoadException
    /\ UNCHANGED <<saham, harga, status, now, market_hours, stocks, idx, price,
                   action, status_written>>

\* the first half of the loop body: the symbol test and fetch_price(symbol)
Fetch(answer) ==
    /\ pc = "loop"
    /\ LET symbol == stocks[idx].yahoo_symbol
           fetched == fetch_price(answer)
       IN  IF ~Truthy(symbol)
           THEN /\ pc' = Continue(stocks, idx).pc
                /\ idx' = Continue(stocks, idx).idx
                /\ price' = NoPrice
           ELSE IF fetched = NoPrice
           THEN /\ pc' = OnFetchNone(stocks, idx).pc
                /\ idx' = OnFetchNone(stocks, idx).idx
                /\ price' = NoPrice
           ELSE /\ pc' = "save"
                /\ idx' = idx
                /\ price' = fetched
    /\ action' = NoAction
    /\ UNCHANGED <<saham, harga, status, now, market_hours, stocks, status_written>>

\* action = save_price_to_supabase(stock, price) returns
SaveOk ==
    /\ pc = "save"
    /\ \E existing \in CheckExisting(harga, stocks[idx].id, price.date) :
          /\ harga' = WritePrice(harga, existing, stocks[idx].id, price)
          /\ action' = ActionOf(existing)
    /\ pc' = Continue(stocks, idx).pc
    /\ idx' = Continue(stocks, idx).idx
    /\ price' = NoPrice
    /\ UNCHANGED <<saham, status, now, market_hours, stocks, status_written>>

\* a store call of save_price_to_supabase raises
SaveFail ==
    /\ pc = "save"
    /\ pc' = OnSaveException(stocks, idx).pc
    /\ idx' = OnSaveException(stocks, idx).idx
    /\ price' = NoPrice
    /\ action' = NoAction
    /\ UNCHANGED <<saham, harga, status, now, market_hours, stocks, status_written>>

\* update_system_status(now_jkt, market_hours) returns
StatusOk ==
    /\ pc = "status"
    /\ status' = update_system_status(status, now, market_hours)
    /\ status_written' = TRUE
    /\ pc' = "returned"
    /\ action' = NoAction
    /\ UNCHANGED <<saham, harga, now, market_hours, stocks, idx, price>>

\* a store call of update_system_status raises
StatusFail ==
    /\ pc = "status"
    /\ pc' = OnStatusException
    /\ action' = NoAction
    /\ UNCHANGED <<saham, harga, status, now, market_hours, stocks, idx, price,
                   status_written>>

(***************************************************************************)
(* Initial states                                                           *)
(***************************************************************************)
SymbolOf(i) == IF i % 2 = 1 THEN "BBCA.JK" ELSE "TLKM.JK"

SahamRow(i, symbol, tracked) == [id |-> i, yahoo_symbol |-> symbol, is_tracked |-> tracked]

\* every content of the table saham within the bounds
AllSahamTables ==
    { [i \in SahamIds |-> SahamRow(i, f[i][1], f[i][2])] :
        f \in [SahamIds -> SymbolValues \X BOOLEAN] }

\* the contents the runs are checked on: each row is tracked with its symbol,
\* tracked with the placeholder "null", or not tracked
RunSahamTables ==
    { [i \in SahamIds |->
          IF f[i] = "tracked" THEN SahamRow(i, SymbolOf(i), TRUE)
          ELSE IF f[i] = "placeholder" THEN SahamRow(i, "null", TRUE)
          ELSE SahamRow(i, SymbolOf(i), FALSE)] :
        f \in [SahamIds -> {"tracked", "placeholder", "untracked"}] }

PriceRow(saham_id, close_date, close_price) ==
    [id |-> <<saham_id, close_date, 0>>, saham_id |-> saham_id,
     close_date |-> close_date, close_price |-> close_price]

\* the price tables the runs start from: empty, or one row already there
StartPrices == {{}} \cup {{PriceRow(1, d, 9500)} : d \in Dates}

NoInvocations == [p \in {1, 2} |-> [pc |-> "done"]]

InitRun(tables, prices, first_pc) ==
    /\ saham \in tables
    /\ harga \in prices
    /\ status = NoRow
    /\ pc = first_pc
    /\ now = Unset
    /\ market_hours = FALSE
    /\ stocks = <<>>
    /\ idx = 1
    /\ price = NoPrice
    /\ action = NoAction
    /\ status_written = FALSE

NoHistory ==
    /\ outcomes = <<>>
    /\ provider = [s \in Symbols |-> ProviderError]
    /\ run_no = 0
    /\ after_first = {}
    /\ store_fault = FALSE
    /\ inv = NoInvocations

(***************************************************************************)
(* Spec: any sequence of runs of the job, one after the other               *)
(***************************************************************************)
Init ==
    /\ InitRun(RunSahamTables, StartPrices, "idle")
    /\ NoHistory

RunStart == \E clock \in RunClocks : StartRun(clock) /\ UNCHANGED hvars
RunLoadOk == LoadOk /\ UNCHANGED hvars
RunLoadFail == LoadFail /\ UNCHANGED hvars
RunFetch == \E answer \in ProviderAnswers : Fetch(answer) /\ UNCHANGED hvars
RunSaveOk == SaveOk /\ UNCHANGED hvars
RunSaveFail == SaveFail /\ UNCHANGED hvars
RunStatusOk == StatusOk /\ UNCHANGED hvars
RunStatusFail == StatusFail /\ UNCHANGED hvars

Next ==
    \/ RunStart
    \/ RunLoadOk
    \/ RunLoadFail
    \/ RunFetch
    \/ RunSaveOk
    \/ RunSaveFail
    \/ RunStatusOk
    \/ RunStatusFail

Spec == Init /\ [][Next]_vars
(***************************************************************************)
(* C1.  With runs that do not overlap, harga_saham_harian never holds two   *)
(* rows of the same (saham_id, close_date), whatever is tracked, whatever   *)
(* the provider answers and whichever fetches and saves fail.               *)
(***************************************************************************)
C1_AtMostOneRowPerKey ==
    \A r1 \in harga : \A r2 \in harga :
        (r1.saham_id = r2.saham_id /\ r1.close_date = r2.close_date) => r1 = r2

\* several runs have filled more than one key and the last save was an update
C1_Witness == Cardinality(harga) >= 3 /\ action = "update"

(***************************************************************************)
(* C2.  A save that returns leaves exactly one row of (X, D), holding P: a  *)
(* new row (action "insert", one row more, the others as they were) when    *)
(* there was none, the row that was there with its price overwritten        *)
(* (action "update", no row more) when there was one.                       *)
(***************************************************************************)
C2_UpsertOneRow ==
    [][ (pc = "save" /\ action' \in {"insert", "update"}) =>
          LET X == stocks[idx].id
              D == price.date
              P == price.close
              before == RowsFor(harga, X, D)
              after == RowsFor(harga', X, D)
          IN  /\ Cardinality(after) = 1
              /\ \A r \in after : r.close_price = P
              /\ harga' \ after = harga \ before
              /\ before = {} => /\ action' = "insert"
                                /\ Cardinality(harga') = Cardinality(harga) + 1
              /\ before # {} => /\ action' = "update"
                                /\ {r.id : r \in after} = {r.id : r \in before}
                                /\ Cardinality(harga') = Cardinality(harga)
      ]_vars

\* an update has just overwritten the price of a row among others
C2_Witness == action = "update" /\ Cardinality(harga) >= 2

(***************************************************************************)
(* C6.  When the row of id 1 exists, a status write that returns sets the   *)
(* field chosen by market_hours to the timestamp and leaves the other       *)
(* timestamp field as it was.                                               *)
(***************************************************************************)
C6_OneFieldWritten ==
    [][ (pc = "status" /\ status_written' /\ status # NoRow) =>
          /\ status'.id = 1
          /\ market_hours =>
                /\ status'.last_auto_update_at = isoformat(now)
                /\ status'.last_out_of_hours_run = status.last_out_of_hours_run
          /\ ~market_hours =>
                /\ status'.last_out_of_hours_run = isoformat(now)
                /\ status'.last_auto_update_at = status.last_auto_update_at
      ]_vars

\* a market-hours run has written its field beside an older off-hours value
C6_Witness ==
    /\ pc = "returned" /\ status_written /\ market_hours
    /\ status # NoRow
    /\ status.last_auto_update_at = isoformat(now)
    /\ status.last_out_of_hours_run # NullTs

(***************************************************************************)
(* C7.  As claimed: nothing is ever raised out of run_once.                 *)
(***************************************************************************)
C7_NothingEscapes == pc # "raised"

(***************************************************************************)
(* C7, amended.  Only the store query of get_tracked_stocks is raised out   *)
(* of run_once: once the list is loaded, a failing fetch, save or status    *)
(* write leaves the run inside run_once, which goes on to return.           *)
(***************************************************************************)
C7_OnlyLoaderEscapes ==
    [][ /\ pc' = "raised" => pc \in {"load", "raised"}
        /\ pc \in {"loop", "save", "status"} =>
              pc' \in {"loop", "save", "status", "returned"}
      ]_vars

\* a run returned although its status write raised
C7_Witness == pc = "returned" /\ ~status_written /\ stocks # <<>>

(***************************************************************************)
(* C9.  As claimed: when a run ends, the row of id 1 exists and the field   *)
(* of the run's classification holds the run's timestamp.                   *)
(***************************************************************************)
HeartbeatHeld ==
    /\ status # NoRow
    /\ status.id = 1
    /\ IF market_hours THEN status.last_auto_update_at = isoformat(now)
       ELSE status.last_out_of_hours_run = isoformat(now)

C9_HeartbeatEveryRun == pc \in {"returned", "raised"} => HeartbeatHeld

(***************************************************************************)
(* C9, amended.  When a run ends whose tracked-stock query and status       *)
(* write both succeeded, the row of id 1 exists and the field of the run's  *)
(* classification holds the run's timestamp.                                *)
(***************************************************************************)
C9_HeartbeatWhenWritten == (pc = "returned" /\ status_written) => HeartbeatHeld

\* a run over no stock at all created the row: its other field is still null
C9_Witness ==
    /\ pc = "returned" /\ status_written /\ stocks = <<>>
    /\ status # NoRow
    /\ status.last_auto_update_at = NullTs

(***************************************************************************)
(* SpecClock: is_market_hours on every clock reading of Clocks              *)
(***************************************************************************)
InitClock ==
    /\ InitRun(RunSahamTables, {{}}, "idle")
    /\ NoHistory

ClockStart == \E clock \in Clocks : StartRun(clock) /\ UNCHANGED hvars

NextClock == ClockStart

SpecClock == InitClock /\ [][NextClock]_vars

SecondOfDay(t) == t.hour * 3600 + t.minute * 60 + t.second

(***************************************************************************)
(* C3.  is_market_hours is true exactly on Monday to Friday from 09:00:00   *)
(* to 15:30:00, both included; false on Saturday and Sunday, at 08:59:59    *)
(* and at 15:30:01.                                                         *)
(***************************************************************************)
C3_MarketHours ==
    pc = "load" =>
        LET s == SecondOfDay(now.time)
            in_window == /\ 9 * 3600 <= s
                         /\ \/ s < 15 * 3600 + 30 * 60
                            \/ s = 15 * 3600 + 30 * 60 /\ now.time.microsecond = 0
        IN  /\ market_hours <=> (now.weekday \in 0..4 /\ in_window)
            /\ now.weekday \in {5, 6} => ~market_hours
            /\ now.time \in {Time(8, 59, 59, 0), Time(15, 30, 1, 0)} => ~market_hours
            /\ (now.weekday \in 0..4 /\ now.time \in {Time(9, 0, 0, 0), Time(15, 30, 0, 0)})
                  => market_hours

\* Friday 15:30:00 sharp is classified as market hours
C3_Witness ==
    /\ pc = "load" /\ market_hours
    /\ now = [weekday |-> 4, time |-> Time(15, 30, 0, 0)]

(***************************************************************************)
(* SpecLoader: get_tracked_stocks on every content of saham                 *)
(***************************************************************************)
InitLoader ==
    /\ InitRun(AllSahamTables, {{}}, "load")
    /\ NoHistory

LoaderLoadOk == LoadOk /\ UNCHANGED hvars

NextLoader == LoaderLoadOk

SpecLoader == InitLoader /\ [][NextLoader]_vars

(***************************************************************************)
(* C4.  get_tracked_stocks returns exactly the rows with is_tracked true    *)
(* and a yahoo_symbol that is not null, not "" and not "null", each once    *)
(* and in the order of the table.                                           *)
(***************************************************************************)
C4_TrackedWithSymbol ==
    pc # "load" =>
        /\ \A i \in DOMAIN saham :
              (\E j \in DOMAIN stocks : stocks[j] = saham[i])
                 <=> /\ saham[i].is_tracked
                     /\ saham[i].yahoo_symbol # None
                     /\ saham[i].yahoo_symbol # ""
                     /\ saham[i].yahoo_symbol # "null"
        /\ \A j \in DOMAIN stocks : \E i \in DOMAIN saham : stocks[j] = saham[i]
        /\ \A j, k \in DOMAIN stocks : j < k => stocks[j].id < stocks[k].id

\* a tracked row holding the placeholder was left out, another row was kept
C4_Witness ==
    /\ pc # "load"
    /\ Len(stocks) = 1
    /\ \E i \in DOMAIN saham : saham[i].is_tracked /\ saham[i].yahoo_symbol = "null"
(***************************************************************************)
(* SpecBatch: one run of the job, with the history of what happened to each *)
(* stock of the list                                                        *)
(***************************************************************************)
Outcome(stock, result, data) == [id |-> stock.id, result |-> result, price |-> data]

InitBatch ==
    /\ InitRun(RunSahamTables, StartPrices, "idle")
    /\ NoHistory

hrest == <<tvars, inv>>

BatchStart ==
    /\ pc = "idle"
    /\ \E clock \in RunClocks : StartRun(clock)
    /\ UNCHANGED hvars

BatchLoadOk == LoadOk /\ UNCHANGED hvars

BatchLoadFail == LoadFail /\ UNCHANGED hvars

BatchFetch ==
    /\ \E answer \in ProviderAnswers : Fetch(answer)
    /\ outcomes' =
          IF pc' = "save" THEN outcomes
          ELSE Append(outcomes,
                      Outcome(stocks[idx],
                              IF Truthy(stocks[idx].yahoo_symbol) THEN "fetch_failed"
                              ELSE "skipped",
                              NoPrice))
    /\ UNCHANGED hrest

BatchSaveOk ==
    /\ SaveOk
    /\ outcomes' = Append(outcomes, Outcome(stocks[idx], "saved", price))
    /\ UNCHANGED hrest

BatchSaveFail ==
    /\ SaveFail
    /\ outcomes' = Append(outcomes, Outcome(stocks[idx], "save_failed", price))
    /\ UNCHANGED hrest

BatchStatusOk == StatusOk /\ UNCHANGED hvars

BatchStatusFail == StatusFail /\ UNCHANGED hvars

NextBatch ==
    \/ BatchStart
    \/ BatchLoadOk
    \/ BatchLoadFail
    \/ BatchFetch
    \/ BatchSaveOk
    \/ BatchSaveFail
    \/ BatchStatusOk
    \/ BatchStatusFail

SpecBatch == InitBatch /\ [][NextBatch]_vars

(***************************************************************************)
(* C5.  When the loop of a run is over, every stock of the list has been    *)
(* fetched, in order, whichever of them failed to fetch or to save, and     *)
(* every stock whose fetch and save succeeded has its row with the fetched  *)
(* date and price.                                                          *)
(***************************************************************************)
C5_FailuresDoNotStopTheLoop ==
    pc \in {"status", "returned"} =>
        /\ Len(outcomes) = Len(stocks)
        /\ \A i \in DOMAIN stocks : outcomes[i].id = stocks[i].id
        /\ \A i \in DOMAIN outcomes :
              outcomes[i].result = "saved" =>
                 \E r \in harga : /\ r.saham_id = outcomes[i].id
                                  /\ r.close_date = outcomes[i].price.date
                                  /\ r.close_price = outcomes[i].price.close

\* the first stock failed to fetch and the second one was saved all the same
C5_Witness ==
    /\ pc = "returned"
    /\ Len(outcomes) >= 2
    /\ outcomes[1].result = "fetch_failed"
    /\ outcomes[2].result = "saved"

(***************************************************************************)
(* SpecTwice: up to MaxRuns runs one after the other, while the provider    *)
(* keeps answering the same for each symbol                                 *)
(***************************************************************************)
Triples(table) ==
    {[saham_id |-> r.saham_id, close_date |-> r.close_date,
      close_price |-> r.close_price] : r \in table}

InitTwice ==
    /\ InitRun(RunSahamTables, {{}, {PriceRow(1, DateList[2], 9500)}}, "idle")
    /\ provider \in [Symbols -> ProviderAnswers]
    /\ outcomes = <<>>
    /\ run_no = 0
    /\ after_first = {}
    /\ store_fault = FALSE
    /\ inv = NoInvocations

\* the rows are remembered when the first run ends
RunEnds == after_first' = IF run_no = 1 THEN Triples(harga') ELSE after_first

TwiceStart ==
    /\ run_no < MaxRuns
    /\ \E clock \in RunClocks : StartRun(clock)
    /\ run_no' = run_no + 1
    /\ UNCHANGED <<outcomes, provider, after_first, store_fault, inv>>

TwiceLoadOk == LoadOk /\ UNCHANGED hvars

TwiceLoadFail ==
    /\ LoadFail
    /\ RunEnds
    /\ store_fault' = TRUE
    /\ UNCHANGED <<outcomes, provider, run_no, inv>>

TwiceFetch ==
    /\ pc = "loop"
    /\ Fetch(provider[stocks[idx].yahoo_symbol])
    /\ UNCHANGED hvars

TwiceSaveOk == SaveOk /\ UNCHANGED hvars

TwiceSaveFail ==
    /\ SaveFail
    /\ store_fault' = TRUE
    /\ UNCHANGED <<outcomes, provider, run_no, after_first, inv>>

TwiceStatusOk ==
    /\ StatusOk
    /\ RunEnds
    /\ UNCHANGED <<outcomes, provider, run_no, store_fault, inv>>

TwiceStatusFail ==
    /\ StatusFail
    /\ RunEnds
    /\ UNCHANGED <<outcomes, provider, run_no, store_fault, inv>>

NextTwice ==
    \/ TwiceStart
    \/ TwiceLoadOk
    \/ TwiceLoadFail
    \/ TwiceFetch
    \/ TwiceSaveOk
    \/ TwiceSaveFail
    \/ TwiceStatusOk
    \/ TwiceStatusFail

SpecTwice == InitTwice /\ [][NextTwice]_vars

(***************************************************************************)
(* C8.  With the same provider answer per symbol and no store call of the   *)
(* price path raising, a second (and any later) run leaves the set of       *)
(* (saham_id, close_date, close_price) the first run left.                  *)
(***************************************************************************)
C8_RerunLeavesSameRows ==
    (pc = "returned" /\ run_no >= 2 /\ ~store_fault) => Triples(harga) = after_first

\* the second run is over, and it updated a row the first run had written
C8_Witness ==
    /\ pc = "returned" /\ run_no = 2 /\ ~store_fault
    /\ Cardinality(after_first) >= 2
    /\ Triples(harga) = after_first

(***************************************************************************)
(* SpecRace: two invocations of save_price_to_supabase whose store calls    *)
(* interleave                                                               *)
(***************************************************************************)
Invocations ==
    [pc : {"check"}, saham_id : SahamIds, data : Bars, existing : {<<>>}]

InitRace ==
    /\ InitRun({[i \in SahamIds |-> SahamRow(i, SymbolOf(i), TRUE)]}, StartPrices, "idle")
    /\ outcomes = <<>>
    /\ provider = [s \in Symbols |-> ProviderError]
    /\ run_no = 0
    /\ after_first = {}
    /\ store_fault = FALSE
    /\ inv \in [{1, 2} -> Invocations]

\* check_resp = ...select("id")...limit(1).execute(); existing = check_resp.data
RaceCheck(p) ==
    /\ inv[p].pc = "check"
    /\ \E existing \in CheckExisting(harga, inv[p].saham_id, inv[p].data.date) :
          inv' = [inv EXCEPT ![p].existing = existing, ![p].pc = "write"]
    /\ UNCHANGED <<pvars, outcomes, tvars>>

\* the update or the insert that follows the check
RaceWrite(p) ==
    /\ inv[p].pc = "write"
    /\ harga' = WritePrice(harga, inv[p].existing, inv[p].saham_id, inv[p].data)
    /\ inv' = [inv EXCEPT ![p].pc = "done"]
    /\ UNCHANGED <<saham, status, pc, now, market_hours, stocks, idx, price, action,
                   status_written, outcomes, tvars>>

NextRace == \E p \in {1, 2} : RaceCheck(p) \/ RaceWrite(p)

SpecRace == InitRace /\ [][NextRace]_vars

(***************************************************************************)
(* C10.  When two invocations for the same (saham_id, close_date) both      *)
(* checked before either wrote and found no row, both insert: the table     *)
(* ends with two rows of that key.  Nothing in the sequence excludes it.    *)
(***************************************************************************)
C10_RaceInsertsTwice ==
    ( /\ inv[1].pc = "done" /\ inv[2].pc = "done"
      /\ inv[1].saham_id = inv[2].saham_id
      /\ inv[1].data.date = inv[2].data.date
      /\ inv[1].existing = <<>> /\ inv[2].existing = <<>> )
    => Cardinality(RowsFor(harga, inv[1].saham_id, inv[1].data.date)) = 2

\* both invocations are over and the key has two rows, with different prices
C10_Witness ==
    /\ inv[1].pc = "done" /\ inv[2].pc = "done"
    /\ inv[1].existing = <<>> /\ inv[2].existing = <<>>
    /\ inv[1].data.close # inv[2].data.close
    /\ Cardinality(RowsFor(harga, inv[1].saham_id, inv[1].data.date)) = 2
====
